---- MODULE Spec2Model ----
(***************************************************************************)
(* Model of devtools/flatpack.py: the redaction resolver                   *)
(* (decide_redaction over pathspec's GitWildMatchPattern rules) and the    *)
(* scope collector (collect_entries).                                      *)
(*                                                                         *)
(* A Python str is a sequence of one-character strings.  The pattern       *)
(* language is the one GitWildMatchPattern.pattern_to_regex translates:    *)
(* a compiled rule carries the regular expression as a token sequence and  *)
(* match_file is the anchored match of that expression.  Bracket classes   *)
(* and backslash escapes are outside the alphabets used here.              *)
(***************************************************************************)
EXTENDS Integers, Sequences, FiniteSets, TLC

\* ------------------------------------------------------------------ bounds
MaxDepth == 3      \* path segments of a generated path
MaxDots  == 2      \* literal "./" prefixes put in front of a path
MaxRules == 2      \* rules in a generated ordered rule list
MaxListed == 3     \* total number of paths over the three oracle listings
MaxSize  == 1      \* file sizes reported by stat

\* ----------------------------------------------------------- str helpers
SLASH == "/"
BANG  == "!"
STAR  == "*"

\* s[from:] of Python, 1-based start
Drop(s, n) == SubSeq(s, n + 1, Len(s))

\* str.startswith
StartsWith(s, pre) ==
    /\ Len(s) >= Len(pre)
    /\ SubSeq(s, 1, Len(pre)) = pre

\* str.split("/"): the segments between slashes, empty ones kept
RECURSIVE SplitFrom(_, _, _)
SplitFrom(s, i, cur) ==
    IF i > Len(s) THEN <<cur>>
    ELSE IF s[i] = SLASH THEN <<cur>> \o SplitFrom(s, i + 1, <<>>)
    ELSE SplitFrom(s, i + 1, Append(cur, s[i]))

Split(s) == SplitFrom(s, 1, <<>>)

\* "/".join(segs)
RECURSIVE Join(_)
Join(segs) ==
    IF Len(segs) = 0 THEN <<>>
    ELSE IF Len(segs) = 1 THEN segs[1]
    ELSE segs[1] \o <<SLASH>> \o Join(Tail(segs))

\* str.lstrip("!")
RECURSIVE LStripBang(_)
LStripBang(s) ==
    IF Len(s) > 0 /\ s[1] = BANG THEN LStripBang(Tail(s)) ELSE s

\* Code points of the characters in use (sorted() compares by code point).
CharCode(c) ==
    CASE c = "!" -> 33
      [] c = "*" -> 42
      [] c = "." -> 46
      [] c = "/" -> 47
      [] c = "?" -> 63
      [] c = "a" -> 97
      [] c = "b" -> 98
      [] c = "d" -> 100
      [] c = "e" -> 101
      [] c = "s" -> 115
      [] c = "t" -> 116
      [] c = "x" -> 120

\* Python's str "<"
RECURSIVE StrLess(_, _)
StrLess(s, t) ==
    IF Len(t) = 0 THEN FALSE
    ELSE IF Len(s) = 0 THEN TRUE
    ELSE IF s[1] = t[1] THEN StrLess(Tail(s), Tail(t))
    ELSE CharCode(s[1]) < CharCode(t[1])

\* ------------------------------------------------------- _normalize_path
\* Variant: strips leading "." and "/" characters (an lstrip("./")).
RECURSIVE NormalizePathLStrip(_)
NormalizePathLStrip(p) ==
    IF Len(p) > 0 /\ p[1] \in {".", "/"} THEN NormalizePathLStrip(Tail(p)) ELSE p

RECURSIVE _normalize_path(_)
_normalize_path(p) ==
    IF StartsWith(p, <<".", "/">>) THEN _normalize_path(Drop(p, 2)) ELSE p

\* ---------------------------------------- GitWildMatchPattern (pathspec)
\* Regular-expression tokens:
\* (each a tuple headed by its kind):
\*   <<"lit", c>>  the character c          "seg*"   [^/]*
\*   "seg1"  [^/]                           "seg+"   [^/]+
\*   "lead"  (?:.+/)?                       "inner"  (?:/.+)?
\*   "trail" /.*                            "opttrail" (?:/.*)?
\*   "any+"  .+                             "any*"   .*
\* NoRegex stands for a rule whose regex is None.
NoRegex == << <<"none">> >>

\* _translate_segment_glob: one pattern segment, character by character
RECURSIVE TranslateSegmentGlob(_)
TranslateSegmentGlob(seg) ==
    IF Len(seg) = 0 THEN <<>>
    ELSE (IF seg[1] = STAR THEN << <<"seg*">> >>
          ELSE IF seg[1] = "?" THEN << <<"seg1">> >>
          ELSE << <<"lit", seg[1]>> >>) \o TranslateSegmentGlob(Tail(seg))

\* Collapse each run of "**" segments to one (iterating from the end).
RECURSIVE CollapseDoubleStar(_)
CollapseDoubleStar(segs) ==
    IF Len(segs) <= 1 THEN segs
    ELSE LET rest == CollapseDoubleStar(Tail(segs))
         IN  IF segs[1] = <<STAR, STAR>> /\ rest[1] = <<STAR, STAR>>
             THEN rest
             ELSE <<segs[1]>> \o rest

\* Variant: a leading slash does not anchor a one-segment pattern.
NormalizeSegsUnanchored(segs) ==
    LET s0 == IF Len(segs[1]) = 0 THEN Tail(segs) ELSE segs
        s1 == IF Len(s0) = 1 \/ (Len(s0) = 2 /\ Len(s0[2]) = 0)
              THEN (IF s0[1] # <<STAR, STAR>>
                    THEN << <<STAR, STAR>> >> \o s0 ELSE s0)
              ELSE s0
    IN  IF Len(s1) > 1 /\ Len(s1[Len(s1)]) = 0
        THEN SubSeq(s1, 1, Len(s1) - 1) \o << <<STAR, STAR>> >>
        ELSE s1

\* Variant: a one-segment pattern is not made to float ("**/" is not put
\* in front of it), so it matches at the root only.
NormalizeSegsRootOnly(segs) ==
    LET s1 == IF Len(segs[1]) = 0 THEN Tail(segs) ELSE segs
    IN  IF Len(s1) > 1 /\ Len(s1[Len(s1)]) = 0
        THEN SubSeq(s1, 1, Len(s1) - 1) \o << <<STAR, STAR>> >>
        ELSE s1

\* Root-relative normalisation of the segment list.
NormalizeSegs(segs) ==
    LET s1 == IF Len(segs[1]) = 0 THEN Tail(segs)
              ELSE IF Len(segs) = 1 \/ (Len(segs) = 2 /\ Len(segs[2]) = 0)
                   THEN (IF segs[1] # <<STAR, STAR>>
                         THEN << <<STAR, STAR>> >> \o segs ELSE segs)
                   ELSE segs
    IN  IF Len(s1) > 1 /\ Len(s1[Len(s1)]) = 0
        THEN SubSeq(s1, 1, Len(s1) - 1) \o << <<STAR, STAR>> >>
        ELSE s1

\* Variant: a leading "**" demands at least one directory (.+/ not optional).
RECURSIVE BuildRegexLeadRequired(_, _, _)
BuildRegexLeadRequired(segs, i, need_slash) ==
    IF i > Len(segs) THEN <<>>
    ELSE LET seg == segs[i]
             end == Len(segs)
             sl  == IF need_slash THEN << <<"lit", SLASH>> >> ELSE <<>>
             fin == IF i = end THEN << <<"opttrail">> >> ELSE <<>>
         IN  IF seg = <<STAR, STAR>>
             THEN IF i = 1 /\ i = end THEN << <<"seg+">>, <<"opttrail">> >>
                  ELSE IF i = 1
                       THEN << <<"any+">>, <<"lit", SLASH>> >>
                                \o BuildRegexLeadRequired(segs, i + 1, FALSE)
                  ELSE IF i = end THEN << <<"trail">> >>
                  ELSE << <<"inner">> >> \o BuildRegexLeadRequired(segs, i + 1, TRUE)
             ELSE IF seg = <<STAR>>
             THEN sl \o << <<"seg+">> >> \o fin
                     \o BuildRegexLeadRequired(segs, i + 1, TRUE)
             ELSE sl \o TranslateSegmentGlob(seg) \o fin
                     \o BuildRegexLeadRequired(segs, i + 1, TRUE)

\* The loop that builds the expression from the normalised segments.
RECURSIVE BuildRegex(_, _, _)
BuildRegex(segs, i, need_slash) ==
    IF i > Len(segs) THEN <<>>
    ELSE LET seg == segs[i]
             end == Len(segs)
             sl  == IF need_slash THEN << <<"lit", SLASH>> >> ELSE <<>>
             fin == IF i = end THEN << <<"opttrail">> >> ELSE <<>>
         IN  IF seg = <<STAR, STAR>>
             THEN IF i = 1 /\ i = end THEN << <<"seg+">>, <<"opttrail">> >>
                  ELSE IF i = 1 THEN << <<"lead">> >> \o BuildRegex(segs, i + 1, FALSE)
                  ELSE IF i = end THEN << <<"trail">> >>
                  ELSE << <<"inner">> >> \o BuildRegex(segs, i + 1, TRUE)
             ELSE IF seg = <<STAR>>
             THEN sl \o << <<"seg+">> >> \o fin \o BuildRegex(segs, i + 1, TRUE)
             ELSE sl \o TranslateSegmentGlob(seg) \o fin
                     \o BuildRegex(segs, i + 1, TRUE)

\* pattern_to_regex: [regex, include, error]
pattern_to_regex(pattern) ==
    IF Len(pattern) = 0 \/ pattern = <<SLASH>>
    THEN [regex |-> NoRegex, include |-> FALSE, error |-> FALSE]
    ELSE LET include == pattern[1] # BANG
             body    == IF include THEN pattern ELSE Tail(pattern)
             segs0   == CollapseDoubleStar(Split(body))
             override == Len(segs0) = 2 /\ segs0[1] = <<STAR, STAR>>
                         /\ Len(segs0[2]) = 0
             empty   == Len(segs0) = 1 /\ Len(segs0[1]) = 0
         IN  IF empty
             THEN [regex |-> NoRegex, include |-> include, error |-> TRUE]
             ELSE [regex |-> IF override
                             THEN << <<"any+">>, <<"lit", SLASH>>, <<"any*">> >>
                             ELSE BuildRegex(NormalizeSegs(segs0), 1, FALSE),
                   include |-> include, error |-> FALSE]

\* GitWildMatchPattern(p): the compiled rule keeps the text it was given
GitWildMatchPattern(p) ==
    LET r == pattern_to_regex(p)
    IN  [pattern |-> p, regex |-> r.regex, include |-> r.include]

\* re.match of the token sequence re[i..] against s[j..], anchored at the end
RECURSIVE MatchAt(_, _, _, _)
MatchAt(re, i, s, j) ==
    LET n == Len(s)
        NoSlash(a, b) == \A k \in a..b : s[k] # SLASH
    IN  IF i > Len(re) THEN j > n
        ELSE LET t == re[i][1]
             IN  CASE t = "seg*" ->
                        \E k \in j..(n + 1) : NoSlash(j, k - 1) /\ MatchAt(re, i + 1, s, k)
                   [] t = "seg+" ->
                        \E k \in (j + 1)..(n + 1) : NoSlash(j, k - 1) /\ MatchAt(re, i + 1, s, k)
                   [] t = "seg1" ->
                        j <= n /\ s[j] # SLASH /\ MatchAt(re, i + 1, s, j + 1)
                   [] t = "lead" ->
                        \/ MatchAt(re, i + 1, s, j)
                        \/ \E k \in (j + 1)..n : s[k] = SLASH /\ MatchAt(re, i + 1, s, k + 1)
                   [] t = "inner" ->
                        \/ MatchAt(re, i + 1, s, j)
                        \/ /\ j <= n /\ s[j] = SLASH
                           /\ \E k \in (j + 2)..(n + 1) : MatchAt(re, i + 1, s, k)
                   [] t = "trail" ->
                        /\ j <= n /\ s[j] = SLASH
                        /\ \E k \in (j + 1)..(n + 1) : MatchAt(re, i + 1, s, k)
                   [] t = "opttrail" ->
                        \/ MatchAt(re, i + 1, s, j)
                        \/ /\ j <= n /\ s[j] = SLASH
                           /\ \E k \in (j + 1)..(n + 1) : MatchAt(re, i + 1, s, k)
                   [] t = "any+" ->
                        \E k \in (j + 1)..(n + 1) : MatchAt(re, i + 1, s, k)
                   [] t = "any*" ->
                        \E k \in j..(n + 1) : MatchAt(re, i + 1, s, k)
                   [] OTHER ->
                        j <= n /\ s[j] = re[i][2] /\ MatchAt(re, i + 1, s, j + 1)

\* Pattern.match_file: a rule without an expression matches nothing
match_file(p, file) ==
    /\ p.regex # NoRegex
    /\ MatchAt(p.regex, 1, file, 1)

\* compile_gitwild_patterns: one compiled rule per line, order preserved
compile_gitwild_patterns(ls) ==
    [i \in 1..Len(ls) |-> GitWildMatchPattern(ls[i])]

\* GitWildMatchPattern raises GitWildMatchPatternError on a line it rejects
CompileRaises(ls) ==
    \E i \in 1..Len(ls) : pattern_to_regex(ls[i]).error

\* -------------------------------------------------------- decide_redaction
NoMatch == [some |-> FALSE, include |-> FALSE, pattern |-> <<>>]

\* Variant: the first matching rule is kept (no overwrite).
RECURSIVE ScanRulesFirstWins(_, _, _, _)
ScanRulesFirstWins(ps, i, path, last) ==
    IF i > Len(ps) THEN last
    ELSE ScanRulesFirstWins(ps, i + 1, path,
                   IF ~last.some /\ match_file(ps[i], path)
                   THEN [some |-> TRUE, include |-> ps[i].include,
                         pattern |-> ps[i].pattern]
                   ELSE last)

\* the for loop: every matching rule overwrites `last`
RECURSIVE ScanRules(_, _, _, _)
ScanRules(ps, i, path, last) ==
    IF i > Len(ps) THEN last
    ELSE ScanRules(ps, i + 1, path,
                   IF match_file(ps[i], path)
                   THEN [some |-> TRUE, include |-> ps[i].include,
                         pattern |-> ps[i].pattern]
                   ELSE last)

GLOB_PREFIX   == <<"g", "l", "o", "b", ":">>
NEGATE_PREFIX == <<"n", "e", "g", "a", "t", "e", ":", "!">>
DASH          == <<"-">>

decide_redaction(path, ps) ==
    LET last == ScanRules(ps, 1, _normalize_path(path), NoMatch)
    IN  IF ~last.some THEN [redact |-> FALSE, reason |-> DASH]
        ELSE IF last.include
             THEN [redact |-> TRUE, reason |-> GLOB_PREFIX \o last.pattern]
             ELSE [redact |-> FALSE,
                   reason |-> NEGATE_PREFIX \o LStripBang(last.pattern)]

\* ------------------------------------------------------------------ state
VARIABLES
    lines,              \* the rule lines handed to compile_gitwild_patterns
    pats,               \* the compiled rules
    rel_path,           \* decide_redaction's path argument
    result,             \* what decide_redaction returned
    pc,                 \* where the run stands
    tracked_ls,         \* git ls-files, as the oracle lists it
    untracked_ls,       \* git ls-files --others --exclude-standard
    submod_ls,          \* gitlink paths of git ls-files --stage
    fs,                 \* the working tree: what isfile and getsize see
    include_untracked,  \* the include_untracked argument
    tracked,            \* collect_entries' local sets
    submods,
    files,              \* the sorted path list the loop walks
    idx,                \* loop position in files
    entries,            \* the records collected so far
    tracked_count,
    untracked_count,
    stderr,             \* lines printed to sys.stderr
    rule_file,          \* the .flatpackredact file of the repository root
    redact_hash,        \* load_redact_lines' second result
    out,                \* the lines written to outfh so far
    eidx,               \* position of dump_repo's loop in entries
    ops,                \* the file contents opened so far, in order
    failed,             \* the call that ended the run, "" while none has
    prev                \* what an earlier run on the same repository wrote

decideVars  == <<lines, pats, rel_path, result, pc>>
oracleVars  == <<tracked_ls, untracked_ls, submod_ls, fs, include_untracked>>
collectVars == <<tracked, submods, files, idx, entries, tracked_count,
                 untracked_count, stderr>>
dumpVars    == <<rule_file, redact_hash, out, eidx, ops>>
vars == <<lines, pats, rel_path, result, pc, tracked_ls, untracked_ls,
          submod_ls, fs, include_untracked, tracked, submods, files, idx,
          entries, tracked_count, untracked_count, stderr, rule_file,
          redact_hash, out, eidx, ops, failed, prev>>

NoResult == [redact |-> FALSE, reason |-> <<>>]
NoRuleFile == [kind |-> "absent", raw |-> <<>>]
NoHash == [found |-> FALSE, raw |-> <<>>]
NoPrev == [taken |-> FALSE, pc |-> "", out |-> <<>>]

\* ----------------------------------------------------------------- inputs
\* All sequences over S of length 1..n
RECURSIVE SeqsUpTo(_, _)
SeqsUpTo(S, n) ==
    IF n = 0 THEN {}
    ELSE LET shorter == SeqsUpTo(S, n - 1)
         IN  {<<x>> : x \in S} \cup shorter
               \cup {Append(q, x) : q \in shorter, x \in S}

\* k copies of "./" in front of p
RECURSIVE DotSlash(_, _)
DotSlash(k, p) == IF k = 0 THEN p ELSE <<".", "/">> \o DotSlash(k - 1, p)

\* Repository-relative paths: 1..MaxDepth segments joined by "/"
PathsOver(segs) == {Join(q) : q \in SeqsUpTo(segs, MaxDepth)}

\* Names of files and directories used to exercise the matcher
MatchSegs == {<<"d">>, <<"d", "x">>, <<"x", "d">>, <<"a", ".", "t">>, <<".", "e">>}
MatchPaths == PathsOver(MatchSegs)

\* Redact rules: [/] seg [/ seg] [/]
RuleSegs == {<<"d">>, <<"a", ".", "t">>, <<"*", ".", "t">>, <<"*">>, <<"*", "*">>}
RuleBodies == {Join(q) : q \in SeqsUpTo(RuleSegs, 2)}
MatchRules ==
    {lead \o b \o trail : lead \in {<<>>, <<SLASH>>}, b \in RuleBodies,
                           trail \in {<<>>, <<SLASH>>}}

\* Ordered rule lists with negations, and the paths they are applied to
OrderSegs == {<<"a", ".", "t">>, <<".", "e">>, <<"!", "a">>}
OrderPaths == {DotSlash(k, p) : k \in 0..MaxDots, p \in PathsOver(OrderSegs)}
OrderRules == {<<"*", ".", "t">>, <<"a", ".", "t">>, <<"!", "a", ".", "t">>,
               <<".", "e">>, <<"!", "!", "a">>, <<"!">>}
RuleLists == {<<>>} \cup SeqsUpTo(OrderRules, MaxRules)

IdleOracle ==
    /\ tracked_ls = <<>> /\ untracked_ls = <<>> /\ submod_ls = <<>>
    /\ fs = <<>> /\ include_untracked = FALSE

IdleCollect ==
    /\ tracked = {} /\ submods = {} /\ files = <<>> /\ idx = 0
    /\ entries = <<>> /\ tracked_count = 0 /\ untracked_count = 0
    /\ stderr = <<>>

IdleDump ==
    /\ rule_file = NoRuleFile /\ redact_hash = NoHash
    /\ out = <<>> /\ eidx = 0 /\ ops = <<>> /\ failed = ""
    /\ prev = NoPrev

\* decide_redaction(path, compile_gitwild_patterns([rule])) for one rule
InitMatch ==
    /\ lines \in {<<r>> : r \in MatchRules}
    /\ rel_path \in MatchPaths
    /\ pats = <<>> /\ result = NoResult /\ pc = "ready"
    /\ IdleOracle /\ IdleCollect /\ IdleDump

\* decide_redaction over an ordered rule list
InitDecide ==
    /\ lines \in RuleLists
    /\ rel_path \in OrderPaths
    /\ pats = <<>> /\ result = NoResult /\ pc = "ready"
    /\ IdleOracle /\ IdleCollect /\ IdleDump

\* ---------------------------------------------------------------- actions
\* pats = compile_gitwild_patterns(lines); a rejected line raises
Compile ==
    /\ pc = "ready"
    /\ IF CompileRaises(lines)
       THEN /\ pc' = "raised"
            /\ pats' = pats
            /\ failed' = "compile_gitwild_patterns"
       ELSE /\ pc' = "compiled"
            /\ pats' = compile_gitwild_patterns(lines)
            /\ failed' = failed
    /\ UNCHANGED <<lines, rel_path, result>>
    /\ UNCHANGED oracleVars
    /\ UNCHANGED collectVars
    /\ UNCHANGED dumpVars
    /\ UNCHANGED prev

\* result = decide_redaction(rel_path, pats)
Decide ==
    /\ pc = "compiled"
    /\ result' = decide_redaction(rel_path, pats)
    /\ pc' = "decided"
    /\ UNCHANGED <<lines, pats, rel_path>>
    /\ UNCHANGED oracleVars
    /\ UNCHANGED collectVars
    /\ UNCHANGED <<dumpVars, failed>>
    /\ UNCHANGED prev

NextDecide == Compile \/ Decide

SpecMatch  == InitMatch /\ [][NextDecide]_vars
SpecDecide == InitDecide /\ [][NextDecide]_vars

\* ---------------------------------------------------------- collect_entries
\* set(list): the elements of an oracle listing
Range(q) == {q[i] : i \in 1..Len(q)}

\* Variant: the paths are put in descending order.
RECURSIVE SortedSeqDescending(_)
SortedSeqDescending(S) ==
    IF S = {} THEN <<>>
    ELSE LET m == CHOOSE x \in S : \A y \in S \ {x} : StrLess(y, x)
         IN  <<m>> \o SortedSeqDescending(S \ {m})

\* sorted(files): ascending by code point
RECURSIVE SortedSeq(_)
SortedSeq(S) ==
    IF S = {} THEN <<>>
    ELSE LET m == CHOOSE x \in S : \A y \in S \ {x} : StrLess(x, y)
         IN  <<m>> \o SortedSeq(S \ {m})

\* Variant: a path of the tracked listing is taken to be on disk.
IsFileOrTracked(rel) ==
    fs[rel].kind \in {"file", "nostat"} \/ rel \in Range(tracked_ls)

\* os.path.isfile / os.path.getsize on the working tree
isfile(rel)     == fs[rel].kind \in {"file", "nostat"}
StatFails(rel)  == fs[rel].kind = "nostat"
getsize(rel)    == fs[rel].size

\* The paths of the modelled repository: a root file, a file in a
\* directory, and a path used as a submodule
CollectPaths == {<<"a">>, <<"d", "/", "a">>, <<"s">>}

\* What a path can be on disk: no regular file there (missing, or a
\* directory), a file whose stat fails, or a file of some size
FsStates ==
    {[kind |-> "absent", size |-> 0], [kind |-> "nostat", size |-> 0]}
        \cup {[kind |-> "file", size |-> n] : n \in 0..MaxSize}

\* git lists paths in index order; an unmerged path is listed once per stage
IsListing(q) ==
    \A i \in 1..(Len(q) - 1) : q[i] = q[i + 1] \/ StrLess(q[i], q[i + 1])
Listings == {q \in {<<>>} \cup SeqsUpTo(CollectPaths, MaxListed) : IsListing(q)}

CollectRuleLists ==
    {<<>>, << <<"/", "s">> >>, << <<"d", "/">>, <<"!", "a">> >>}

InitCollect ==
    /\ lines \in CollectRuleLists
    /\ rel_path = <<>> /\ pats = <<>> /\ result = NoResult /\ pc = "ready"
    /\ tracked_ls \in Listings
    /\ untracked_ls \in Listings
    /\ submod_ls \in Listings
    /\ Len(tracked_ls) + Len(untracked_ls) + Len(submod_ls) <= MaxListed
    /\ fs \in [CollectPaths -> FsStates]
    /\ include_untracked \in BOOLEAN
    /\ IdleCollect /\ IdleDump

\* How a git query can fail: a non-zero exit (CalledProcessError), or no git
\* executable (FileNotFoundError, which the helpers do not catch)
GitFailures == {"error", "missing"}

ErrorLine(what) == [level |-> "ERROR", what |-> what, path |-> <<>>]
WarnLine(what, rel) == [level |-> "WARN", what |-> what, path |-> rel]

\* The queries collect_entries makes, in order
Queries ==
    <<"git ls-files failed", "git ls-files --stage failed">>
        \o (IF include_untracked THEN <<"git ls-files --others failed">> ELSE <<>>)

\* collect_entries up to the loop: the oracle queries and the sorted union.
\* Either every query answers, or the first one that fails ends the run.
CollectStart ==
    /\ pc = "compiled"
    /\ \/ /\ tracked' = Range(tracked_ls)
          /\ submods' = Range(submod_ls)
          /\ files' = SortedSeq(Range(tracked_ls) \cup Range(submod_ls)
                  \cup (IF include_untracked THEN Range(untracked_ls) ELSE {}))
          /\ idx' = 1
          /\ pc' = "collect"
          /\ stderr' = stderr
          /\ failed' = failed
       \/ \E q \in 1..Len(Queries), how \in GitFailures :
             /\ IF how = "error"
                THEN /\ stderr' = Append(stderr, ErrorLine(Queries[q]))
                     /\ pc' = "exit"
                ELSE /\ stderr' = stderr
                     /\ pc' = "raised"
             /\ failed' = "git_ls"
             /\ UNCHANGED <<tracked, submods, files, idx>>
    /\ entries' = <<>>
    /\ tracked_count' = 0
    /\ untracked_count' = 0
    /\ UNCHANGED <<lines, pats, rel_path, result>>
    /\ UNCHANGED oracleVars
    /\ UNCHANGED dumpVars
    /\ UNCHANGED prev

\* Variant of the loop body's classification: an entry counts as tracked
\* only when the untracked listing does not also name it.
IsTrackedUntrackedWins(rel) ==
    rel \in tracked /\ ~(include_untracked /\ rel \in Range(untracked_ls))

\* is_tracked = rel in tracked
IsTracked(rel) == rel \in tracked

\* Variant: the gitlink special case is taken only for a path that is not a
\* regular file on disk.
InSubmodsNotOnDisk(rel) == rel \in submods /\ ~isfile(rel)

\* Variant: the gitlink special case is taken only for a path that the
\* tracked listing names as well.
InSubmodsIfTracked(rel) == rel \in submods /\ rel \in tracked

\* if rel in submods
InSubmods(rel) == rel \in submods

\* One iteration of the for loop over files
CollectStep ==
    /\ pc = "collect"
    /\ idx <= Len(files)
    /\ LET rel == files[idx]
           d   == decide_redaction(rel, pats)
       IN  IF InSubmods(rel)
           THEN /\ tracked_count' = tracked_count + 1
                /\ entries' = Append(entries,
                       [path |-> rel, tracked |-> TRUE, size |-> 0,
                        redact |-> d.redact, reason |-> d.reason])
                /\ UNCHANGED <<untracked_count, stderr>>
           ELSE IF ~isfile(rel)
           THEN UNCHANGED <<entries, tracked_count, untracked_count, stderr>>
           ELSE IF StatFails(rel)
           THEN /\ stderr' = Append(stderr, WarnLine("cannot stat", rel))
                /\ UNCHANGED <<entries, tracked_count, untracked_count>>
           ELSE /\ tracked_count' =
                       IF IsTracked(rel) THEN tracked_count + 1 ELSE tracked_count
                /\ untracked_count' =
                       IF IsTracked(rel) THEN untracked_count ELSE untracked_count + 1
                /\ entries' = Append(entries,
                       [path |-> rel, tracked |-> IsTracked(rel),
                        size |-> getsize(rel),
                        redact |-> d.redact, reason |-> d.reason])
                /\ stderr' = stderr
    /\ idx' = idx + 1
    /\ UNCHANGED <<tracked, submods, files>>
    /\ UNCHANGED decideVars
    /\ UNCHANGED oracleVars
    /\ UNCHANGED <<dumpVars, failed>>
    /\ UNCHANGED prev

\* return entries, tracked_count, untracked_count
CollectReturn ==
    /\ pc = "collect"
    /\ idx > Len(files)
    /\ pc' = "collected"
    /\ UNCHANGED <<lines, pats, rel_path, result>>
    /\ UNCHANGED oracleVars
    /\ UNCHANGED collectVars
    /\ UNCHANGED <<dumpVars, failed>>
    /\ UNCHANGED prev

NextCollect == Compile \/ CollectStart \/ CollectStep \/ CollectReturn

SpecCollect == InitCollect /\ [][NextCollect]_vars

\* ---------------------------------------------------------------- dump_repo
\* s.strip(): leading and trailing blanks removed
RECURSIVE LStrip(_)
LStrip(s) == IF s # <<>> /\ Head(s) = " " THEN LStrip(Tail(s)) ELSE s
RECURSIVE RStrip(_)
RStrip(s) ==
    IF s # <<>> /\ s[Len(s)] = " " THEN RStrip(SubSeq(s, 1, Len(s) - 1)) ELSE s
Strip(s) == LStrip(RStrip(s))

\* the loop of load_redact_lines: blank lines and "#" comments are skipped
RECURSIVE KeptLines(_)
KeptLines(raw) ==
    IF raw = <<>> THEN <<>>
    ELSE LET s == Strip(Head(raw))
         IN  (IF s = <<>> \/ Head(s) = "#" THEN <<>> ELSE <<s>>)
                 \o KeptLines(Tail(raw))

\* (lines, sha256 or None), and whether the WARN of the except branch is printed
load_redact_lines(rf) ==
    IF rf.kind = "absent"
    THEN [lines |-> <<>>, hash |-> NoHash, warn |-> FALSE]
    ELSE IF rf.kind = "unreadable"
    THEN [lines |-> <<>>, hash |-> NoHash, warn |-> TRUE]
    ELSE [lines |-> KeptLines(rf.raw), hash |-> [found |-> TRUE, raw |-> rf.raw],
          warn |-> FALSE]

\* The rule files of the modelled repository
DumpRuleTexts ==
    {<<>>,
     << <<"#", " ", "r">>, <<"a">>, <<>> >>,
     << <<"*">>, <<" ", "!", "s">> >>,
     << <<"/", "s">> >>,
     << <<"d", "/">>, <<"!", "a">> >>,
     << <<"!">> >>}
DumpRuleFiles ==
    {NoRuleFile, [kind |-> "unreadable", raw |-> <<>>]}
        \cup {[kind |-> "file", raw |-> t] : t \in DumpRuleTexts}

\* File contents as byte strings: "h" is an ASCII byte, "FF" the byte 0xFF
Contents == {<<>>, <<"h">>, <<"FF">>}

\* What a path can be on disk when its content is opened: no regular file
\* (missing, or a directory), a file that cannot be opened, a readable file
DumpFsStates ==
    {[kind |-> "absent", size |-> 0, readable |-> FALSE, data |-> <<>>],
     [kind |-> "file", size |-> 1, readable |-> FALSE, data |-> <<"h">>]}
        \cup {[kind |-> "file", size |-> Len(d), readable |-> TRUE, data |-> d] :
                 d \in Contents}

\* Listings without repeated paths
DumpListings ==
    {q \in Listings : \A i \in 1..(Len(q) - 1) : StrLess(q[i], q[i + 1])}

InitDump ==
    /\ lines = <<>> /\ rel_path = <<>> /\ pats = <<>> /\ result = NoResult
    /\ pc = "start"
    /\ tracked_ls \in DumpListings
    /\ untracked_ls \in DumpListings
    /\ submod_ls \in {<<>>, << <<"s">> >>}
    /\ Len(tracked_ls) + Len(untracked_ls) + Len(submod_ls) <= MaxListed
    /\ fs \in [CollectPaths -> DumpFsStates]
    /\ include_untracked \in BOOLEAN
    /\ IdleCollect
    /\ rule_file \in DumpRuleFiles
    /\ redact_hash = NoHash /\ out = <<>> /\ eidx = 0 /\ ops = <<>>
    /\ failed = "" /\ prev = NoPrev

\* How validate_repo_root can end: the top level is resolved, the path is no
\* directory, git rev-parse exits non-zero, or there is no git executable
RootOutcomes == {"ok", "notdir", "notrepo", "missing"}

\* repo_root = validate_repo_root(repo_root)
ValidateRepoRoot ==
    /\ pc = "start"
    /\ \E o \in RootOutcomes :
          /\ pc' = CASE o = "ok" -> "validated"
                     [] o = "missing" -> "raised"
                     [] OTHER -> "exit"
          /\ stderr' = CASE o = "notdir" ->
                              Append(stderr, ErrorLine("is not a directory"))
                         [] o = "notrepo" ->
                              Append(stderr, ErrorLine("is not a Git repository"))
                         [] OTHER -> stderr
          /\ failed' = IF o = "ok" THEN failed ELSE "validate_repo_root"
    /\ UNCHANGED <<lines, pats, rel_path, result>>
    /\ UNCHANGED oracleVars
    /\ UNCHANGED <<tracked, submods, files, idx, entries, tracked_count,
                   untracked_count>>
    /\ UNCHANGED dumpVars
    /\ UNCHANGED prev

\* lines, redact_hash = load_redact_lines(repo_root)
LoadRedactLines ==
    /\ pc = "validated"
    /\ LET r == load_redact_lines(rule_file)
       IN  /\ lines' = r.lines
           /\ redact_hash' = r.hash
           /\ stderr' = IF r.warn
                        THEN Append(stderr, WarnLine("cannot read", <<>>))
                        ELSE stderr
    /\ pc' = "ready"
    /\ UNCHANGED <<pats, rel_path, result>>
    /\ UNCHANGED oracleVars
    /\ UNCHANGED <<tracked, submods, files, idx, entries, tracked_count,
                   untracked_count>>
    /\ UNCHANGED <<rule_file, out, eidx, ops, failed>>
    /\ UNCHANGED prev

\* One line written to outfh. k names the line; path is the record it is
\* about (printed on a Path line, given by the position in the tree for a
\* tree line); text, n and s are the values printed on it.
Line(k) ==
    [k |-> k, path |-> <<>>, text |-> <<>>, n |-> 0, depth |-> 0, s |-> "",
     status |-> <<>>]

INC_STATUS    == <<"i", "n", "c">>
REDACT_STATUS == <<"r", "e", "d", "a", "c", "t", ":">>

\* human_size(n) for n < 1024: the integer itself, followed by "B"
human_size(n) == n

\* render_tree over build_tree_index's nodes. A node is the set of the
\* entries below it, each with the path segments still to descend: the
\* sorted directory names first, each followed by its subtree, then the
\* files sorted by their name.
RECURSIVE render_tree(_, _)
render_tree(items, depth) ==
    LET dirs  == {it \in items : Len(it.parts) > 1}
        dir_names == SortedSeq({it.parts[1] : it \in dirs})
        file_names == SortedSeq({it.parts[1] : it \in items \ dirs})
        Below(name) == {[parts |-> Tail(it.parts), e |-> it.e] :
                           it \in {i \in dirs : i.parts[1] = name}}
        FileOf(name) == (CHOOSE it \in items \ dirs : it.parts[1] = name).e
        RECURSIVE Dirs(_)
        Dirs(names) ==
            IF names = <<>> THEN <<>>
            ELSE << [Line("dir") EXCEPT !.text = Head(names), !.depth = depth] >>
                     \o render_tree(Below(Head(names)), depth + 1)
                     \o Dirs(Tail(names))
        RECURSIVE Files(_)
        Files(names) ==
            IF names = <<>> THEN <<>>
            ELSE LET e == FileOf(Head(names))
                 IN  << [Line("file") EXCEPT
                            !.path = e.path, !.text = Head(names),
                            !.depth = depth,
                            !.s = IF e.tracked THEN "T" ELSE "U",
                            !.status = IF e.redact THEN REDACT_STATUS \o e.reason
                                       ELSE INC_STATUS,
                            !.n = human_size(e.size)] >>
                         \o Files(Tail(names))
    IN  Dirs(dir_names) \o Files(file_names)

\* build_tree_index: every entry hangs below the directories of its path
build_tree_index(es) ==
    {[parts |-> Split(es[i].path), e |-> es[i]] : i \in 1..Len(es)}

\* "\n".join of the rule file's lines: the text whose hash is printed
RECURSIVE JoinLines(_)
JoinLines(raw) ==
    IF raw = <<>> THEN <<>> ELSE Head(raw) \o <<"\n">> \o JoinLines(Tail(raw))

\* The lines of write_tree_and_header (the Files line is three values)
write_tree_and_header(es, t_count, u_count, r_hash, inc_untracked) ==
    << Line("TREE_BEGIN"),
       Line("Root"),
       [Line("Files") EXCEPT !.n = Len(es)],
       [Line("Tracked") EXCEPT !.n = t_count],
       [Line("Untracked") EXCEPT !.n = u_count],
       Line("Legend") >>
    \o render_tree(build_tree_index(es), 0)
    \o << Line("TREE_END"),
          [Line("Redact-File") EXCEPT
              !.s = IF r_hash.found THEN "found" ELSE "absent"],
          [Line("Redact-File-Hash") EXCEPT
              !.s = IF r_hash.found THEN "sha256" ELSE "-",
              !.text = JoinLines(r_hash.raw)],
          Line("Resolved"),
          [Line("include_untracked") EXCEPT
              !.s = IF inc_untracked THEN "true" ELSE "false"] >>

\* write_tree_and_header(outfh, ...)
WriteTreeAndHeader ==
    /\ pc = "collected"
    /\ out' = out \o write_tree_and_header(entries, tracked_count,
                         untracked_count, redact_hash, include_untracked)
    /\ eidx' = 1
    /\ pc' = "dump"
    /\ UNCHANGED <<lines, pats, rel_path, result>>
    /\ UNCHANGED oracleVars
    /\ UNCHANGED collectVars
    /\ UNCHANGED <<rule_file, redact_hash, ops, failed>>
    /\ UNCHANGED prev

\* open(path, "rb") succeeds on a regular file the process may read
CanOpen(rel) == fs[rel].kind = "file" /\ fs[rel].readable

\* sha256_file: the digest stands for the bytes it was computed from
sha256_file(rel) == [ok |-> CanOpen(rel), hex |-> fs[rel].data]

\* Variant: a file that cannot be opened reads as empty.
ReadWorkingFileLenient(rel) ==
    [ok |-> TRUE, data |-> IF CanOpen(rel) THEN fs[rel].data ELSE <<>>]

\* read_working_file: the bytes of the file, or the exception of open
read_working_file(rel) == [ok |-> CanOpen(rel), data |-> fs[rel].data]

\* is_utf8_text: the byte 0xFF never occurs in UTF-8
is_utf8_text(b) == \A i \in 1..Len(b) : b[i] # "FF"

\* the try/except around sha256_file
hash_line(rel) ==
    IF sha256_file(rel).ok
    THEN [Line("Hash") EXCEPT !.s = "sha256", !.text = sha256_file(rel).hex]
    ELSE [Line("Hash") EXCEPT !.s = "-"]

\* Variant: the block of a redacted record is written from the file's bytes.
RedactedBlockFromBytes(e) ==
    LET data == fs[e.path].data
    IN  << Line("BEGIN"),
           [Line("Path") EXCEPT !.path = e.path],
           [Line("Mode") EXCEPT !.s = IF is_utf8_text(data) THEN "text" ELSE "binary"],
           [Line("Encoding") EXCEPT !.s = IF is_utf8_text(data) THEN "utf-8" ELSE "base64"],
           [Line("Size") EXCEPT !.n = e.size],
           [Line("Redacted") EXCEPT !.s = "yes"],
           [Line("Redact-Reason") EXCEPT !.text = e.reason],
           hash_line(e.path),
           Line("CONTENT"),
           Line("END") >>

\* The lines written for a record with e["redact"] set
RedactedBlock(e) ==
    << Line("BEGIN"),
       [Line("Path") EXCEPT !.path = e.path],
       [Line("Mode") EXCEPT !.s = "binary"],
       [Line("Encoding") EXCEPT !.s = "base64"],
       [Line("Size") EXCEPT !.n = e.size],
       [Line("Redacted") EXCEPT !.s = "yes"],
       [Line("Redact-Reason") EXCEPT !.text = e.reason],
       hash_line(e.path),
       Line("CONTENT"),
       Line("END") >>

\* Variant: the record's own reason is printed.
FileBlockRecordReason(e, data) ==
    << Line("BEGIN"),
       [Line("Path") EXCEPT !.path = e.path],
       [Line("Mode") EXCEPT !.s = IF is_utf8_text(data) THEN "text" ELSE "binary"],
       [Line("Encoding") EXCEPT !.s = IF is_utf8_text(data) THEN "utf-8" ELSE "base64"],
       [Line("Size") EXCEPT !.n = Len(data)],
       [Line("Redacted") EXCEPT !.s = "no"],
       [Line("Redact-Reason") EXCEPT !.text = e.reason],
       hash_line(e.path),
       Line("CONTENT"),
       [Line("body") EXCEPT !.text = data,
                            !.s = IF is_utf8_text(data) THEN "utf-8" ELSE "base64"],
       Line("END") >>

\* The lines written for a record that is not redacted, data being the bytes
\* read. The body line is the decoded text, or the base64 text of the bytes,
\* and the newline that ends it.
FileBlock(e, data) ==
    << Line("BEGIN"),
       [Line("Path") EXCEPT !.path = e.path],
       [Line("Mode") EXCEPT !.s = IF is_utf8_text(data) THEN "text" ELSE "binary"],
       [Line("Encoding") EXCEPT !.s = IF is_utf8_text(data) THEN "utf-8" ELSE "base64"],
       [Line("Size") EXCEPT !.n = Len(data)],
       [Line("Redacted") EXCEPT !.s = "no"],
       [Line("Redact-Reason") EXCEPT !.text = DASH],
       hash_line(e.path),
       Line("CONTENT"),
       [Line("body") EXCEPT !.text = data,
                            !.s = IF is_utf8_text(data) THEN "utf-8" ELSE "base64"],
       Line("END") >>

\* Variant: the hash of a redacted record is not computed.
OpensHashSkippedOnRedact(e) ==
    IF e.redact THEN <<>>
    ELSE << [op |-> "sha256_file", path |-> e.path],
            [op |-> "read_working_file", path |-> e.path] >>

\* The opens one iteration of the loop makes: the hash of every record, the
\* body of a record that is not redacted
Opens(e) ==
    << [op |-> "sha256_file", path |-> e.path] >>
        \o (IF e.redact THEN <<>>
            ELSE << [op |-> "read_working_file", path |-> e.path] >>)

\* One iteration of "for e in entries"
DumpStep ==
    /\ pc = "dump"
    /\ eidx <= Len(entries)
    /\ LET e == entries[eidx]
           r == read_working_file(e.path)
       IN  /\ ops' = ops \o Opens(e)
           /\ stderr' = IF sha256_file(e.path).ok THEN stderr
                        ELSE Append(stderr, WarnLine("cannot hash", e.path))
           /\ IF e.redact
              THEN /\ out' = out \o RedactedBlock(e)
                   /\ eidx' = eidx + 1
                   /\ UNCHANGED <<pc, failed>>
              ELSE IF ~r.ok
              THEN /\ pc' = "raised"
                   /\ failed' = "read_working_file"
                   /\ UNCHANGED <<out, eidx>>
              ELSE /\ out' = out \o FileBlock(e, r.data)
                   /\ eidx' = eidx + 1
                   /\ UNCHANGED <<pc, failed>>
    /\ UNCHANGED <<lines, pats, rel_path, result>>
    /\ UNCHANGED oracleVars
    /\ UNCHANGED <<tracked, submods, files, idx, entries, tracked_count,
                   untracked_count>>
    /\ UNCHANGED <<rule_file, redact_hash>>
    /\ UNCHANGED prev

\* the loop is over: outfh.close() and return
DumpReturn ==
    /\ pc = "dump"
    /\ eidx > Len(entries)
    /\ pc' = "done"
    /\ UNCHANGED <<lines, pats, rel_path, result>>
    /\ UNCHANGED oracleVars
    /\ UNCHANGED collectVars
    /\ UNCHANGED <<dumpVars, failed>>
    /\ UNCHANGED prev

NextDump ==
    \/ ValidateRepoRoot \/ LoadRedactLines \/ Compile
    \/ CollectStart \/ CollectStep \/ CollectReturn
    \/ WriteTreeAndHeader \/ DumpStep \/ DumpReturn

SpecDump == InitDump /\ [][NextDump]_vars

\* ------------------------------------------------- dump_repo, a second time
\* Working trees that differ from fs only in the bytes of files that are
\* records with the decision redact: each such file is still a regular
\* file, as readable as before
ContentVariants ==
    {g \in [CollectPaths -> DumpFsStates] :
        /\ g # fs
        /\ \A p \in CollectPaths :
              \/ g[p] = fs[p]
              \/ /\ \E i \in 1..Len(entries) :
                        entries[i].path = p /\ entries[i].redact
                 /\ fs[p].kind = "file" /\ g[p].kind = "file"
                 /\ g[p].readable = fs[p].readable}

\* dump_repo is called again with the same arguments, after the bytes of
\* redacted files have changed; what the first call wrote is kept in prev
Rerun ==
    /\ ~prev.taken
    /\ pc = "done" \/ failed = "read_working_file"
    /\ prev' = [taken |-> TRUE, pc |-> pc, out |-> out]
    /\ fs' \in ContentVariants
    /\ pc' = "start"
    /\ lines' = <<>> /\ pats' = <<>>
    /\ tracked' = {} /\ submods' = {} /\ files' = <<>> /\ idx' = 0
    /\ entries' = <<>> /\ tracked_count' = 0 /\ untracked_count' = 0
    /\ stderr' = <<>>
    /\ redact_hash' = NoHash /\ out' = <<>> /\ eidx' = 0 /\ ops' = <<>>
    /\ failed' = ""
    /\ UNCHANGED <<rel_path, result, tracked_ls, untracked_ls, submod_ls,
                   include_untracked, rule_file>>

\* The rule files that redact a file of the modelled repository
RedactingRuleTexts ==
    {t \in DumpRuleTexts :
        /\ ~CompileRaises(KeptLines(t))
        /\ \E p \in CollectPaths :
              decide_redaction(p, compile_gitwild_patterns(KeptLines(t))).redact}

InitRerun ==
    /\ InitDump
    /\ rule_file.kind = "file" /\ rule_file.raw \in RedactingRuleTexts

NextRerun == NextDump \/ Rerun

SpecRerun == InitRerun /\ [][NextRerun]_vars

\* ================================================================= claims
\* Shell-style glob of a whole string (fnmatch): "*" any run, "?" one character
RECURSIVE Glob(_, _)
Glob(pat, str) ==
    IF Len(pat) = 0 THEN Len(str) = 0
    ELSE IF pat[1] = STAR
         THEN Glob(Tail(pat), str) \/ (Len(str) > 0 /\ Glob(pat, Tail(str)))
    ELSE IF pat[1] = "?"
         THEN Len(str) > 0 /\ Glob(Tail(pat), Tail(str))
    ELSE Len(str) > 0 /\ str[1] = pat[1] /\ Glob(Tail(pat), Tail(str))

Segments(p) == Split(p)
Basename(p) == Split(p)[Len(Split(p))]
HasSlash(p) == \E i \in 1..Len(p) : p[i] = SLASH
Suffixes(p) == {SubSeq(p, i, Len(p)) : i \in 1..(Len(p) + 1)}

\* The path with every leading "./" taken off, stated without recursion
StripDotSlash(p) ==
    CHOOSE q \in Suffixes(p) :
        /\ ~StartsWith(q, <<".", "/">>)
        /\ \E k \in 0..Len(p) : p = DotSlash(k, q)

RECURSIVE Bangs(_)
Bangs(n) == IF n = 0 THEN <<>> ELSE <<BANG>> \o Bangs(n - 1)

Decided == pc = "decided"

\* ---- C1
\* C1: decide_redaction returns the outcome of the last rule, in file
\* order, that matches the path: (TRUE, "glob:" + rule text) for a redact
\* rule, (FALSE, "negate:!" + rule text without its leading "!"s) for a
\* negated rule, and (FALSE, "-") when no rule matches.
C1_LastMatchWins ==
    Decided =>
        LET np == StripDotSlash(rel_path)
            M  == {i \in 1..Len(lines) :
                      match_file(GitWildMatchPattern(lines[i]), np)}
        IN  IF M = {}
            THEN result = [redact |-> FALSE, reason |-> DASH]
            ELSE LET k    == CHOOSE i \in M : \A j \in M : j <= i
                     line == lines[k]
                 IN  IF line[1] # BANG
                     THEN result = [redact |-> TRUE, reason |-> GLOB_PREFIX \o line]
                     ELSE /\ result.redact = FALSE
                          /\ \E n \in 1..Len(line) :
                                LET core == Drop(line, n)
                                IN  /\ line = Bangs(n) \o core
                                    /\ (Len(core) = 0 \/ core[1] # BANG)
                                    /\ result.reason =
                                         <<"n", "e", "g", "a", "t", "e", ":">>
                                             \o <<BANG>> \o core

\* Two rules of opposite disposition both match and the later one decided.
C1_Witness ==
    /\ Decided /\ Len(pats) = 2
    /\ match_file(pats[1], StripDotSlash(rel_path))
    /\ match_file(pats[2], StripDotSlash(rel_path))
    /\ pats[1].include /\ ~pats[2].include
    /\ ~result.redact

\* ---- C2
\* C2: a directory rule "dir/" matches every path that is exactly that
\* directory or has it as a complete path segment above the file, at any
\* depth when the rule has no leading slash, and never a path where the
\* name is only part of a segment.
C2_DirRuleMatchesDirAndBelow ==
    (Decided /\ lines = << <<"d", "/">> >>) =>
        (result.redact <=>
            \E i \in 1..Len(Segments(rel_path)) : Segments(rel_path)[i] = <<"d">>)

\* ---- C3
\* C3: a rule beginning with "/" is matched from the repository root only:
\* it redacts a path only if its first segment matches the first segment
\* of the path, and "/name" redacts the path "name".
C3_RootAnchored ==
    (Decided /\ lines[1][1] = SLASH) =>
        LET rsegs == Split(Tail(lines[1]))
            psegs == Segments(rel_path)
        IN  /\ (rsegs[1] # <<STAR, STAR>> /\ result.redact)
                    => Glob(rsegs[1], psegs[1])
            /\ (Len(rsegs) = 1 /\ Glob(rsegs[1], rel_path) /\ ~HasSlash(rel_path))
                    => result.redact

\* "/a.t" leaves "d/a.t" alone although its basename is a.t
C3_Witness ==
    /\ Decided
    /\ lines = << <<"/", "a", ".", "t">> >>
    /\ rel_path = <<"d", "/", "a", ".", "t">>
    /\ ~result.redact

\* ---- C4
\* C4: the single rule "/dir" and the single rule "/dir/" give the same
\* redact decision for every path.
C4_AnchoredNameLikeDirRule ==
    (Decided /\ lines = << <<"/", "d">> >>) =>
        result.redact =
            decide_redaction(rel_path,
                compile_gitwild_patterns(<< <<"/", "d", "/">> >>)).redact

\* ---- C5
\* C5: the rule "**/name" redacts every path whose final segment is name,
\* at the repository root and at every depth below it.
C5_DoubleStarAnyDepth ==
    \A name \in RuleSegs \ {<<STAR, STAR>>} :
        (Decided /\ lines = <<(<<STAR, STAR, SLASH>> \o name)>>
                 /\ Glob(name, Basename(rel_path)))
            => result.redact

\* "**/a.t" redacts a.t at the repository root
C5_Witness ==
    /\ Decided
    /\ lines = << <<"*", "*", "/", "a", ".", "t">> >>
    /\ rel_path = <<"a", ".", "t">>
    /\ result.redact

\* ---- C6
\* C6 as stated: a pattern without a slash redacts a path exactly when the
\* path's basename or the full relative path glob-matches it.
C6_BasenameOrFullPath ==
    (Decided /\ ~HasSlash(lines[1])) =>
        (result.redact <=>
            (Glob(lines[1], Basename(rel_path)) \/ Glob(lines[1], rel_path)))

\* C6 as amended: a pattern without a slash redacts a path exactly when
\* some segment of the path (the basename or a directory above it)
\* glob-matches the pattern.
C6_AnySegment ==
    (Decided /\ ~HasSlash(lines[1])) =>
        (result.redact <=>
            \E i \in 1..Len(Segments(rel_path)) :
                Glob(lines[1], Segments(rel_path)[i]))

\* "*.t" redacts a file two directories down by its basename
C6_Witness ==
    /\ Decided
    /\ lines = << <<"*", ".", "t">> >>
    /\ rel_path = <<"d", "/", "x", "d", "/", "a", ".", "t">>
    /\ result.redact

\* ---- C7
\* C7: _normalize_path removes every leading "./" and nothing else: the
\* result never starts with "./", normalising is idempotent, a leading dot
\* of the name itself is kept, and decide_redaction gives the same result
\* for a path with any number of "./" in front of it.
C7_NormalizePath ==
    LET n == _normalize_path(rel_path)
    IN  /\ ~StartsWith(n, <<".", "/">>)
        /\ _normalize_path(n) = n
        /\ \E k \in 0..Len(rel_path) : rel_path = DotSlash(k, n)
        /\ Decided =>
               \A k \in {0, MaxDots + 1} :
                   decide_redaction(DotSlash(k, StripDotSlash(rel_path)), pats)
                       = result

\* "././.e" is redacted by the rule ".e"
C7_Witness ==
    /\ Decided
    /\ rel_path = <<".", "/", ".", "/", ".", "e">>
    /\ lines = << <<".", "e">> >>
    /\ result.redact

\* ---- C8
Collected == pc = "collected"
RecordedPaths == {entries[i].path : i \in 1..Len(entries)}
TrackedListed   == Range(tracked_ls)
UntrackedListed == Range(untracked_ls)
SubmodsListed   == Range(submod_ls)
InScope ==
    TrackedListed \cup SubmodsListed
        \cup (IF include_untracked THEN UntrackedListed ELSE {})

\* C8: the recorded paths are exactly the tracked paths, the untracked
\* paths when untracked inclusion is enabled and the gitlink paths, minus
\* the non-gitlink paths that are no regular file or cannot be stat-ed; a
\* path missing on disk is left out without a message, and the run is
\* never ended once the loop has started.
C8_ScopeUnion ==
    /\ Collected =>
          /\ RecordedPaths =
                {p \in InScope : p \in SubmodsListed \/ fs[p].kind = "file"}
          /\ ~include_untracked =>
                \A p \in UntrackedListed \ (TrackedListed \cup SubmodsListed) :
                    p \notin RecordedPaths
          /\ \A i \in 1..Len(stderr) :
                stderr[i].path \notin SubmodsListed
                    /\ fs[stderr[i].path].kind = "nostat"
    /\ pc \in {"exit", "raised"} => (idx = 0 /\ entries = <<>>)

\* A tracked path that is missing on disk was left out, next to one kept
C8_Witness ==
    /\ Collected
    /\ \E p \in TrackedListed \ SubmodsListed :
          fs[p].kind = "absent" /\ p \notin RecordedPaths
    /\ \E p \in UntrackedListed \ TrackedListed : p \in RecordedPaths
    /\ stderr = <<>>

\* ---- C9
\* C9: every path is recorded at most once whatever the listings repeat,
\* and a path of both the tracked and the untracked listing is recorded
\* as tracked and never counted as untracked.
C9_UniqueTrackedWins ==
    /\ \A i, j \in 1..Len(entries) :
          entries[i].path = entries[j].path => i = j
    /\ \A i \in 1..Len(entries) :
          entries[i].path \in TrackedListed => entries[i].tracked
    /\ untracked_count <=
          Cardinality({i \in 1..Len(entries) :
                          entries[i].path \notin TrackedListed})

\* A path listed twice as tracked and once as untracked, recorded once
C9_Witness ==
    /\ Collected /\ include_untracked
    /\ \E p \in TrackedListed \cap UntrackedListed :
          /\ Len(tracked_ls) > Cardinality(TrackedListed)
          /\ p \notin SubmodsListed
          /\ \E i \in 1..Len(entries) : entries[i].path = p /\ entries[i].tracked
    /\ untracked_count = 0

\* ---- C10
\* C10: every gitlink path is recorded as tracked with size 0, with or
\* without untracked inclusion and whatever is on disk at the path, and
\* carries the decision decide_redaction gives for it.
C10_SubmoduleRecorded ==
    Collected =>
        \A p \in SubmodsListed :
            \E i \in 1..Len(entries) :
                /\ entries[i].path = p
                /\ entries[i].tracked
                /\ entries[i].size = 0
                /\ LET d == decide_redaction(p, compile_gitwild_patterns(lines))
                   IN  entries[i].redact = d.redact /\ entries[i].reason = d.reason
                /\ (lines = << <<"/", "s">> >> /\ p = <<"s">>) => entries[i].redact

\* A gitlink path that is a non-empty regular file and is not in the
\* tracked listing, recorded with untracked inclusion disabled
C10_Witness ==
    /\ Collected /\ ~include_untracked
    /\ <<"s">> \in SubmodsListed \ TrackedListed
    /\ fs[<<"s">>].kind = "file" /\ fs[<<"s">>].size > 0
    /\ \E i \in 1..Len(entries) :
          entries[i].path = <<"s">> /\ entries[i].size = 0 /\ entries[i].redact

\* ---- C11
ErrorLines == {i \in 1..Len(stderr) : stderr[i].level = "ERROR"}
WarnLines(what) ==
    {i \in 1..Len(stderr) : stderr[i].level = "WARN" /\ stderr[i].what = what}

\* C11: when an oracle query fails, whether git exits non-zero or there is
\* no git to run, the run has ended, exactly one ERROR line is on stderr, no
\* record has been returned and nothing has been written to the output.
C11_OracleFailureFatal ==
    failed = "git_ls" =>
        /\ pc \in {"exit", "raised"}
        /\ Cardinality(ErrorLines) = 1
        /\ entries = <<>>
        /\ out = <<>>

\* ---- C12
\* the rule file cannot be read, or one of its lines is rejected as a pattern
RuleFileIssue ==
    \/ rule_file.kind = "unreadable"
    \/ rule_file.kind = "file" /\ CompileRaises(KeptLines(rule_file.raw))
RulesLoaded == pc \notin {"start", "validated"} /\ failed # "validate_repo_root"

\* C12: a rule file that cannot be read, or that holds a line which is not
\* a valid pattern, never ends the run: once the rules are loaded a WARN is
\* on stderr, the rule set is empty, and compiling the rules does not raise.
C12_RuleFileIssueNotFatal ==
    (RuleFileIssue /\ RulesLoaded) =>
        /\ failed # "compile_gitwild_patterns"
        /\ \E i \in 1..Len(stderr) : stderr[i].level = "WARN"
        /\ lines = <<>> /\ pats = <<>>

\* ---- C13
IsPathLine(l) == l.k = "Path"
\* the paths of the blocks written, in the order of the blocks
BlockPaths ==
    LET ls == SelectSeq(out, IsPathLine)
    IN  [i \in 1..Len(ls) |-> ls[i].path]
CountLines(k) == Cardinality({i \in 1..Len(out) : out[i].k = k})
\* dump_repo is over: it returned, or reading a file's body raised
DumpEnded == pc = "done" \/ failed = "read_working_file"

\* C13: when dump_repo is over, every record, a submodule placeholder
\* included, has exactly one BEGIN ... END block in the output, and a path
\* that is no record has none.
C13_OneBlockPerRecord ==
    DumpEnded =>
        /\ \A p \in CollectPaths :
              Cardinality({i \in 1..Len(BlockPaths) : BlockPaths[i] = p})
                  = IF p \in RecordedPaths THEN 1 ELSE 0
        /\ CountLines("BEGIN") = Len(BlockPaths)
        /\ CountLines("END") = Len(BlockPaths)

\* ---- C14
IsTreeFileLine(l) == l.k = "file"
\* the files of the rendered tree, top to bottom
TreeFilePaths ==
    LET ls == SelectSeq(out, IsTreeFileLine)
    IN  [i \in 1..Len(ls) |-> ls[i].path]
\* the directory a path lies in, as its segments
ParentOf(p) == SubSeq(Split(p), 1, Len(Split(p)) - 1)
PositionIn(q, p) == CHOOSE i \in 1..Len(q) : q[i] = p
TreeWritten == pc \in {"dump", "done"} \/ failed = "read_working_file"

\* C14 as claimed: the blocks of a finished dump are in the order in which
\* the tree shows the files.
C14_BlocksInTreeOrder ==
    pc = "done" => BlockPaths = TreeFilePaths

\* C14: the blocks are written in the order of the records, which is the
\* ascending order of the full paths; two files of the same directory are
\* in that order in the tree as well.
C14_BlocksInPathOrder ==
    TreeWritten =>
        /\ Len(BlockPaths) <= Len(entries)
        /\ \A i \in 1..Len(BlockPaths) : BlockPaths[i] = entries[i].path
        /\ \A i, j \in 1..Len(BlockPaths) :
              i < j =>
                 /\ StrLess(BlockPaths[i], BlockPaths[j])
                 /\ ParentOf(BlockPaths[i]) = ParentOf(BlockPaths[j]) =>
                       PositionIn(TreeFilePaths, BlockPaths[i])
                           < PositionIn(TreeFilePaths, BlockPaths[j])
        /\ Range(TreeFilePaths) = RecordedPaths
        /\ pc = "done" => Len(BlockPaths) = Len(entries)

\* a finished dump of a root-level file and a file in a directory: the tree
\* shows the directory's file first, the blocks the root-level file
C14_Witness ==
    /\ pc = "done"
    /\ BlockPaths = << <<"a">>, <<"d", "/", "a">>, <<"s">> >>
    /\ TreeFilePaths = << <<"d", "/", "a">>, <<"a">>, <<"s">> >>

\* ---- C15
\* the lines of the i-th block written: from its BEGIN line to its END line
BeginAt(i) ==
    CHOOSE b \in 1..Len(out) :
        /\ out[b].k = "BEGIN"
        /\ Cardinality({j \in 1..b : out[j].k = "BEGIN"}) = i
EndAt(i) ==
    CHOOSE x \in BeginAt(i)..Len(out) :
        /\ out[x].k = "END"
        /\ \A j \in BeginAt(i)..(x - 1) : out[j].k # "END"
BlockOf(i) == SubSeq(out, BeginAt(i), EndAt(i))
Field(b, k) == b[CHOOSE j \in 1..Len(b) : b[j].k = k]
HasField(b, k) == \E j \in 1..Len(b) : b[j].k = k
Opened(op, p) == \E j \in 1..Len(ops) : ops[j] = [op |-> op, path |-> p]

\* C15: the block of a redacted record says Redacted: yes, Mode: binary,
\* Encoding: base64 and has END right after CONTENT; the file was opened
\* for the hash, which is the digest of the bytes on disk when they can be
\* read, and was never opened for its body.
C15_RedactedHashedNotRead ==
    TreeWritten =>
        \A i \in 1..Len(BlockPaths) :
            entries[i].redact =>
                LET b == BlockOf(i)
                    p == entries[i].path
                IN  /\ Field(b, "Path").path = p
                    /\ Field(b, "Redacted").s = "yes"
                    /\ Field(b, "Mode").s = "binary"
                    /\ Field(b, "Encoding").s = "base64"
                    /\ b[Len(b) - 1].k = "CONTENT"
                    /\ ~HasField(b, "body")
                    /\ Opened("sha256_file", p)
                    /\ ~Opened("read_working_file", p)
                    /\ CanOpen(p) =>
                          /\ Field(b, "Hash").s = "sha256"
                          /\ Field(b, "Hash").text = fs[p].data

\* a finished dump with a redacted text file whose hash was computed, after
\* a file that was dumped with its body
C15_Witness ==
    /\ pc = "done"
    /\ \E i \in 1..Len(BlockPaths) :
          /\ entries[i].redact
          /\ fs[entries[i].path].data = <<"h">>
          /\ Field(BlockOf(i), "Hash").s = "sha256"
    /\ \E i \in 1..Len(BlockPaths) : HasField(BlockOf(i), "body")

\* ---- C16
HashFailed(p) ==
    \E j \in 1..Len(stderr) : stderr[j] = WarnLine("cannot hash", p)

\* C16: once the hash of a record has failed (WARN: cannot hash), the run
\* is not aborted, the block of that record is written with Hash: -, and a
\* finished run has the blocks of all records.
C16_HashFailureRecoverable ==
    \A i \in 1..Len(entries) :
        HashFailed(entries[i].path) =>
            /\ pc # "raised"
            /\ i <= Len(BlockPaths)
            /\ Field(BlockOf(i), "Hash").s = "-"
            /\ pc = "done" => Len(BlockPaths) = Len(entries)

\* ---- C17
TreeAndHeader ==
    write_tree_and_header(entries, tracked_count, untracked_count, redact_hash,
                          include_untracked)

\* C17: the loop never gets past a record that is not redacted and whose
\* file cannot be opened: the hash step prints its WARN, then the read
\* raises. At that point the output holds the tree, the header and the
\* complete blocks of the records before it, and nothing else.
C17_UnreadableFilePropagates ==
    /\ TreeWritten =>
          \A i \in 1..Len(entries) :
              (i < eidx /\ ~entries[i].redact) => CanOpen(entries[i].path)
    /\ failed = "read_working_file" =>
          /\ pc = "raised"
          /\ eidx \in 1..Len(entries)
          /\ ~entries[eidx].redact /\ ~CanOpen(entries[eidx].path)
          /\ stderr[Len(stderr)] = WarnLine("cannot hash", entries[eidx].path)
          /\ SubSeq(out, 1, Len(TreeAndHeader)) = TreeAndHeader
          /\ Len(BlockPaths) = eidx - 1
          /\ \A i \in 1..(eidx - 1) : BlockPaths[i] = entries[i].path
          /\ CountLines("BEGIN") = eidx - 1 /\ CountLines("END") = eidx - 1
          /\ out[Len(out)].k = IF eidx = 1 THEN "include_untracked" ELSE "END"

\* the read of the second of three records raised, after the first record's
\* block was written
C17_Witness ==
    /\ failed = "read_working_file"
    /\ eidx = 2 /\ Len(entries) = 3
    /\ Len(BlockPaths) = 1
    /\ fs[entries[2].path].kind = "file"

\* ---- C18
\* C18 as claimed: every block carries the redact flag and the reason of its
\* record.
C18_BlockCarriesRecordReason ==
    TreeWritten =>
        \A i \in 1..Len(BlockPaths) :
            /\ Field(BlockOf(i), "Redacted").s = "yes" <=> entries[i].redact
            /\ Field(BlockOf(i), "Redact-Reason").text = entries[i].reason

\* C18: every block carries the redact flag of its record; its reason line
\* is the record's reason when the record is redacted, and "-" when it is
\* not, also for a record whose reason is negate:!<pattern>.
C18_ReasonOnlyWhenRedacted ==
    TreeWritten =>
        \A i \in 1..Len(BlockPaths) :
            LET b == BlockOf(i)
            IN  /\ Field(b, "Path").path = entries[i].path
                /\ Field(b, "Redacted").s = IF entries[i].redact THEN "yes" ELSE "no"
                /\ Field(b, "Redact-Reason").text =
                       IF entries[i].redact THEN entries[i].reason ELSE DASH
                /\ entries[i].redact => StartsWith(entries[i].reason, GLOB_PREFIX)

\* a finished dump with a redacted record and a record that a negated rule
\* keeps: the block of the latter says Redact-Reason: -
C18_Witness ==
    /\ pc = "done"
    /\ \E i \in 1..Len(BlockPaths) :
          /\ entries[i].redact
          /\ Field(BlockOf(i), "Redact-Reason").text = GLOB_PREFIX \o <<"*">>
    /\ \E i \in 1..Len(BlockPaths) :
          /\ ~entries[i].redact
          /\ entries[i].reason = NEGATE_PREFIX \o <<"s">>
          /\ Field(BlockOf(i), "Redact-Reason").text = DASH

\* ---- C19
NumTracked(flag) ==
    Cardinality({i \in 1..Len(entries) : entries[i].tracked = flag})

\* C19: all through collect_entries, tracked_count is the number of records
\* with tracked set, untracked_count the number of the others, and
\* untracked_count stays 0 when include_untracked is off; the header made
\* from the returned values shows their sum as Files.
C19_CountsMatchRecords ==
    pc \in {"collect", "collected"} =>
        /\ tracked_count = NumTracked(TRUE)
        /\ untracked_count = NumTracked(FALSE)
        /\ tracked_count + untracked_count = Len(entries)
        /\ ~include_untracked => untracked_count = 0
        /\ Collected =>
              /\ Field(TreeAndHeader, "Files").n = Len(entries)
              /\ Field(TreeAndHeader, "Files").n =
                    Field(TreeAndHeader, "Tracked").n
                        + Field(TreeAndHeader, "Untracked").n

\* collect_entries returned a tracked file, a submodule and an untracked file
C19_Witness ==
    /\ Collected
    /\ include_untracked
    /\ tracked_count = 2 /\ untracked_count = 1
    /\ \E i \in 1..Len(entries) : entries[i].path \in submods

\* ---- C20
Min(a, b) == IF a < b THEN a ELSE b
Max(a, b) == IF a < b THEN b ELSE a
\* line i of the stream o lies in a block that says Redacted: yes
InRedactedBlock(o, i) ==
    \E j \in 1..Len(o) :
        /\ o[j].k = "Redacted" /\ o[j].s = "yes"
        /\ \A m \in Min(i, j)..Max(i, j) : o[m].k \notin {"BEGIN", "END"}
\* the stream o without the size and hash values of redacted files: the
\* Size and Hash lines of their blocks and the size on their tree lines
Masked(o) ==
    [i \in 1..Len(o) |->
        IF o[i].k = "file" /\ StartsWith(o[i].status, REDACT_STATUS)
        THEN [o[i] EXCEPT !.n = 0]
        ELSE IF o[i].k \in {"Size", "Hash"} /\ InRedactedBlock(o, i)
        THEN [o[i] EXCEPT !.n = 0, !.text = <<>>]
        ELSE o[i]]
BothRunsOver == prev.taken /\ (pc = "done" \/ failed = "read_working_file")

\* C20: two dumps of working trees that differ only in the bytes of
\* redacted files end the same way, and their streams are equal line by
\* line once the size and hash values of the redacted files are left out.
C20_RedactionNonInterference ==
    BothRunsOver =>
        /\ pc = prev.pc
        /\ Masked(out) = Masked(prev.out)

\* two finished dumps whose streams differ, of a repository with a redacted
\* file and a file dumped with its body
C20_Witness ==
    /\ BothRunsOver
    /\ pc = "done"
    /\ out # prev.out
    /\ \E i \in 1..Len(BlockPaths) : entries[i].redact
    /\ \E i \in 1..Len(BlockPaths) :
          /\ HasField(BlockOf(i), "body")
          /\ Field(BlockOf(i), "body").text # <<>>

====
